---- MODULE Spec2Model ----
(***************************************************************************)
(* Model of lx-thermals (src/thermals.py): the sensor acquisition and      *)
(* aggregation core.  Files are sequences of one-character strings, a      *)
(* directory is absent (<<>>) or present (<<contents>>), an optional value *)
(* (Python None) is a sequence of length 0 or 1, an int is an integer and   *)
(* a float is an IEEE-754 binary64 value with its arithmetic.  Characters  *)
(* are those of U+0000..U+00FF, the ones a string of the model can hold.   *)
(* The rows of the tree widget hold the values update() hands them; their  *)
(* rendering as text (f"{t:.1f}") belongs to the presentation.             *)
(***************************************************************************)
EXTENDS Integers, Sequences, FiniteSets, TLC

VARIABLES
    fs,      \* the sysfs tree read by the last run of update()
    series,  \* per metric: column 1 (cur), the *_min / *_max globals, column 4 (crit)
    err,     \* TRUE when the last run of update() ended in an exception
    ticks,   \* number of runs of update() so far
    arg,     \* argument of the function under test (function specifications)
    ret      \* its outcome, <<>> until it has been called

vars == <<fs, series, err, ticks, arg, ret>>

None == <<>>
Some(x) == <<x>>

----------------------------------------------------------------------------
(* Text: str.strip() and int()                                             *)

Digits == <<"0", "1", "2", "3", "4", "5", "6", "7", "8", "9">>
DigitSet == {Digits[i] : i \in 1..Len(Digits)}
\* the characters of str.isspace(): U+0009..U+000D, U+001C..U+001F, U+0020,
\* U+0085, U+00A0
Whitespace == {"\t", "\n", "", "\f", "\r", "", "", "", "", " ",
               "", " "}

DigitVal(c) == (CHOOSE i \in 1..Len(Digits) : Digits[i] = c) - 1

RECURSIVE LStrip(_)
LStrip(t) == IF t # <<>> /\ Head(t) \in Whitespace THEN LStrip(Tail(t)) ELSE t

RECURSIVE RStrip(_)
RStrip(t) ==
    IF t # <<>> /\ t[Len(t)] \in Whitespace THEN RStrip(SubSeq(t, 1, Len(t) - 1)) ELSE t

Strip(t) == RStrip(LStrip(t))

\* int() accepts digits with single underscores between them
IsIntBody(b) ==
    /\ b # <<>>
    /\ b[1] \in DigitSet
    /\ b[Len(b)] \in DigitSet
    /\ \A i \in 1..Len(b) : b[i] \in DigitSet \/ b[i] = "_"
    /\ \A i \in 1..(Len(b) - 1) : ~(b[i] = "_" /\ b[i + 1] = "_")

RECURSIVE DigitsValue(_, _)
DigitsValue(b, acc) ==
    IF b = <<>> THEN acc
    ELSE IF Head(b) = "_" THEN DigitsValue(Tail(b), acc)
    ELSE DigitsValue(Tail(b), 10 * acc + DigitVal(Head(b)))

\* int(text.strip()): [ok |-> FALSE] stands for ValueError
ParseInt(text) ==
    LET s == Strip(text)
        signed == s # <<>> /\ Head(s) \in {"-", "+"}
        body == IF signed THEN Tail(s) ELSE s
    IN  IF ~IsIntBody(body) THEN [ok |-> FALSE, val |-> 0]
        ELSE [ok |-> TRUE,
              val |-> IF signed /\ Head(s) = "-" THEN 0 - DigitsValue(body, 0)
                      ELSE DigitsValue(body, 0)]

----------------------------------------------------------------------------
(* Numbers.  An int is an integer, a float is an IEEE-754 binary64 value    *)
(* [neg, man, exp] standing for (-1)^neg * man * 2^exp: man is the 53-bit   *)
(* significand as limbs in base 2^11, least significant first, with its top *)
(* bit set; 0.0 is Zero.  Every operation computes the exact result and     *)
(* rounds it to nearest, ties to even, as the hardware does.                *)

LimbBits == 11
Base == 2048
ManLimbs == 5
Width == 12
Precision == 53
Guard == 77
FarApart == 64

Abs(n) == IF n < 0 THEN 0 - n ELSE n

\* naturals of up to Width limbs
BigZero == [i \in 1..Width |-> 0]
BigOf(n) == [i \in 1..Width |-> IF i = 1 THEN n % Base
                                ELSE IF i = 2 THEN (n \div Base) % Base
                                ELSE IF i = 3 THEN n \div (Base * Base)
                                ELSE 0]
Widen(man) == [i \in 1..Width |-> IF i <= ManLimbs THEN man[i] ELSE 0]
Narrow(N) == [i \in 1..ManLimbs |-> N[i]]

LimbLen(x) == CHOOSE k \in 0..LimbBits : x < 2^k /\ (k = 0 \/ 2^(k - 1) <= x)
TopLimb(N) == CHOOSE i \in 1..Width : N[i] # 0 /\ \A j \in (i + 1)..Width : N[j] = 0
BitLen(N) == IF N = BigZero THEN 0
             ELSE (LimbBits * (TopLimb(N) - 1)) + LimbLen(N[TopLimb(N)])

LimbAt(N, i) == IF i \in 1..Width THEN N[i] ELSE 0

\* N * 2^s and floor(N / 2^s)
ShiftLeft(N, s) ==
    LET q == s \div LimbBits
        r == s % LimbBits
    IN  [i \in 1..Width |-> ((LimbAt(N, i - q) * 2^r) % Base)
                            + (LimbAt(N, i - q - 1) \div 2^(LimbBits - r))]
ShiftRight(N, s) ==
    LET q == s \div LimbBits
        r == s % LimbBits
    IN  [i \in 1..Width |-> (LimbAt(N, i + q) \div 2^r)
                            + ((LimbAt(N, i + q + 1) % 2^r) * 2^(LimbBits - r))]

BitAt(N, i) == (N[(i \div LimbBits) + 1] \div 2^(i % LimbBits)) % 2
\* no bit of N below bit s is set
LowBitsZero(N, s) ==
    /\ \A i \in 1..(s \div LimbBits) : N[i] = 0
    /\ LimbAt(N, (s \div LimbBits) + 1) % 2^(s % LimbBits) = 0

RECURSIVE AddFrom(_, _, _, _)
AddFrom(A, B, i, carry) ==
    IF i > Width THEN <<>>
    ELSE LET t == A[i] + B[i] + carry
         IN  <<t % Base>> \o AddFrom(A, B, i + 1, t \div Base)
BigAdd(A, B) == AddFrom(A, B, 1, 0)

\* A - B for A >= B
RECURSIVE SubFrom(_, _, _, _)
SubFrom(A, B, i, borrow) ==
    IF i > Width THEN <<>>
    ELSE LET t == A[i] - B[i] - borrow
         IN  <<t % Base>> \o SubFrom(A, B, i + 1, IF t < 0 THEN 1 ELSE 0)
BigSub(A, B) == SubFrom(A, B, 1, 0)

BigLt(A, B) == \E i \in DOMAIN A : A[i] < B[i] /\ \A j \in DOMAIN A : j > i => A[j] = B[j]

\* quotient and remainder of the limbs 1..i of N, with r carried in, by d < 2^20
RECURSIVE DivFrom(_, _, _, _)
DivFrom(N, d, i, r) ==
    IF i = 0 THEN [q |-> <<>>, r |-> r]
    ELSE LET t == (r * Base) + N[i]
             rest == DivFrom(N, d, i - 1, t % d)
         IN  [q |-> Append(rest.q, t \div d), r |-> rest.r]
DivSmall(N, d) == DivFrom(N, d, Width, 0)

Zero == [neg |-> FALSE, man |-> [i \in 1..ManLimbs |-> 0], exp |-> 0]
IsZero(x) == x.man = Zero.man

\* the float nearest to (-1)^neg * (N + f) * 2^e, where 0 <= f < 1 and
\* sticky tells whether f # 0; ties go to the even significand
Round(neg, N, sticky, e) ==
    IF N = BigZero THEN Zero
    ELSE LET s == BitLen(N) - Precision IN
         IF s <= 0 THEN [neg |-> neg, man |-> Narrow(ShiftLeft(N, 0 - s)), exp |-> e + s]
         ELSE LET q == ShiftRight(N, s)
                  half == BitAt(N, s - 1) = 1
                  more == sticky \/ ~LowBitsZero(N, s - 1)
                  m == IF half /\ (more \/ q[1] % 2 = 1) THEN BigAdd(q, BigOf(1)) ELSE q
              IN  IF BitLen(m) > Precision
                  THEN [neg |-> neg, man |-> Narrow(ShiftRight(m, 1)), exp |-> e + s + 1]
                  ELSE [neg |-> neg, man |-> Narrow(m), exp |-> e + s]

\* float(k)
Float(k) == Round(k < 0, BigOf(Abs(k)), FALSE, 0)

\* the float nearest to (-1)^neg * N * 2^e / d, for an int d with 0 < d < 2^20
Quotient(neg, N, e, d) ==
    LET qr == DivSmall(ShiftLeft(N, Guard), d)
    IN  Round(neg, qr.q, qr.r # 0, e - Guard)

\* x / d for a float x and an int d
FDiv(x, d) == Quotient(x.neg, Widen(x.man), x.exp, d)

\* k / d for ints: the float nearest to the quotient
TrueDiv(k, d) == Quotient(k < 0, BigOf(Abs(k)), 0, d)

\* a + b of floats; an addend more than FarApart binary places below the
\* other only tells which way the other is rounded
FAdd(a, b) ==
    IF IsZero(a) THEN b
    ELSE IF IsZero(b) THEN a
    ELSE LET big == IF a.exp >= b.exp THEN a ELSE b
             small == IF a.exp >= b.exp THEN b ELSE a
             d == big.exp - small.exp
             k == IF d > FarApart THEN FarApart ELSE d
             A == ShiftLeft(Widen(big.man), k)
             B == IF d > FarApart THEN BigOf(1) ELSE Widen(small.man)
             e == big.exp - k
         IN  IF big.neg = small.neg THEN Round(big.neg, BigAdd(A, B), FALSE, e)
             ELSE IF A = B THEN Zero
             ELSE IF BigLt(B, A) THEN Round(big.neg, BigSub(A, B), FALSE, e)
             ELSE Round(small.neg, BigSub(B, A), FALSE, e)

MagLt(a, b) ==
    IF IsZero(b) THEN FALSE
    ELSE IF IsZero(a) THEN TRUE
    ELSE a.exp < b.exp \/ (a.exp = b.exp /\ BigLt(a.man, b.man))

FLt(a, b) ==
    IF a.neg # b.neg THEN a.neg
    ELSE IF a.neg THEN MagLt(b, a)
    ELSE MagLt(a, b)

FLe(a, b) == ~FLt(b, a)
\* truthiness of a float: zero is falsy
Truthy(x) == ~IsZero(x)

\* sum(xs): 0 + xs[1] + xs[2] + ..., from the left
RECURSIVE SumFrom(_, _)
SumFrom(acc, xs) == IF xs = <<>> THEN acc ELSE SumFrom(FAdd(acc, Head(xs)), Tail(xs))
Sum(xs) == SumFrom(Zero, xs)

----------------------------------------------------------------------------
(* Readers.  A hwmon directory holds                                        *)
(*   temps: the temp<N>_input files in glob order, each with the optional   *)
(*          temp<N>_label (its stripped text) and temp<N>_crit beside it,   *)
(*   freqs: the freq<N>_input files in glob order, [idx |-> N, text |-> _], *)
(*   fan:   the optional fan1_input.                                        *)

\* results[name] = (value, crit_val): a dict keeps the position of a key it already has
DictPut(d, e) ==
    IF \E i \in 1..Len(d) : d[i].name = e.name
    THEN [i \in 1..Len(d) |-> IF d[i].name = e.name THEN e ELSE d[i]]
    ELSE Append(d, e)

DictHas(d, name) == \E i \in 1..Len(d) : d[i].name = name
DictGet(d, name) == d[CHOOSE i \in 1..Len(d) : d[i].name = name]

Raised == [err |-> TRUE, res |-> <<>>]

RECURSIVE ReadChannels(_, _)
ReadChannels(chs, results) ==
    IF chs = <<>> THEN [err |-> FALSE, res |-> results]
    ELSE LET ch == Head(chs) IN
         IF ch.label = None THEN ReadChannels(Tail(chs), results)
         ELSE LET value == ParseInt(ch.input)
                  crit == IF ch.crit = None THEN [ok |-> TRUE, val |-> 0]
                          ELSE ParseInt(ch.crit[1])
              IN  IF ~value.ok \/ ~crit.ok THEN Raised
                  ELSE ReadChannels(Tail(chs),
                         DictPut(results,
                                 [name |-> ch.label[1],
                                  value |-> TrueDiv(value.val, 1000),
                                  crit |-> IF ch.crit = None THEN None
                                           ELSE Some(TrueDiv(crit.val, 1000))]))

\* glob on a directory that does not exist yields nothing
read_hwmon(path) ==
    IF path = None THEN [err |-> FALSE, res |-> <<>>]
    ELSE ReadChannels(path[1].temps, <<>>)

RECURSIVE ReadCores(_, _)
ReadCores(cores, freqs) ==
    IF cores = <<>> THEN [err |-> FALSE, res |-> freqs]
    ELSE IF Head(cores) = None THEN ReadCores(Tail(cores), freqs)
    ELSE LET v == ParseInt(Head(cores)[1]) IN
         IF ~v.ok THEN Raised
         ELSE ReadCores(Tail(cores), Append(freqs, TrueDiv(v.val, 1000000)))

\* max(xs): the first of the largest
RECURSIVE MaxFrom(_, _)
MaxFrom(best, xs) ==
    IF xs = <<>> THEN best
    ELSE MaxFrom(IF FLt(best, Head(xs)) THEN Head(xs) ELSE best, Tail(xs))
MaxOf(xs) == MaxFrom(Head(xs), Tail(xs))

\* cores: the cpu[0-9]* directories in glob order, each with its optional
\* cpufreq/scaling_cur_freq
read_cpu_clock(cores) ==
    LET r == ReadCores(cores, <<>>) IN
    IF r.err THEN [err |-> TRUE, val |-> None]
    ELSE [err |-> FALSE,
          val |-> IF r.res = <<>> THEN None
                  ELSE Some(FDiv(Sum(r.res), Len(r.res)))]

RECURSIVE ReadFreqs(_, _)
ReadFreqs(fqs, core_clocks) ==
    IF fqs = <<>> THEN [err |-> FALSE, res |-> core_clocks]
    ELSE LET v == ParseInt(Head(fqs).text) IN
         IF ~v.ok THEN Raised
         ELSE ReadFreqs(Tail(fqs),
                        IF v.val > 0 THEN Append(core_clocks, TrueDiv(v.val, 1000000))
                        ELSE core_clocks)

HasFreq2(d) == \E i \in 1..Len(d.freqs) : d.freqs[i].idx = 2
Freq2(d) == d.freqs[CHOOSE i \in 1..Len(d.freqs) : d.freqs[i].idx = 2].text

GpuRaised == [err |-> TRUE, core |-> None, mem |-> None, fan |-> None]

RECURSIVE ScanGpuHwmons(_, _, _, _)
ScanGpuHwmons(hs, core_clocks, mem_clock, fan) ==
    IF hs = <<>>
    THEN [err |-> FALSE,
          core |-> IF core_clocks = <<>> THEN None ELSE Some(MaxOf(core_clocks)),
          mem |-> mem_clock, fan |-> fan]
    ELSE IF Head(hs) = None THEN ScanGpuHwmons(Tail(hs), core_clocks, mem_clock, fan)
    ELSE LET h == Head(hs)[1]
             c == ReadFreqs(h.freqs, core_clocks)
             f == IF h.fan = None THEN [ok |-> TRUE, val |-> 0] ELSE ParseInt(h.fan[1])
             m == IF HasFreq2(h) THEN ParseInt(Freq2(h)) ELSE [ok |-> TRUE, val |-> 0]
         IN  IF c.err \/ ~f.ok \/ ~m.ok THEN GpuRaised
             ELSE ScanGpuHwmons(Tail(hs), c.res,
                                IF HasFreq2(h) THEN Some(TrueDiv(m.val, 1000000)) ELSE mem_clock,
                                IF h.fan = None THEN fan ELSE Some(f.val))

\* read_gpu_clocks_and_fan keeping the first directory's memory clock and fan
FirstDirectoryWins(hwmons) ==
    ScanGpuHwmons([i \in 1..Len(hwmons) |-> hwmons[Len(hwmons) + 1 - i]], <<>>, None, None)

read_gpu_clocks_and_fan(hwmons) == ScanGpuHwmons(hwmons, <<>>, None, None)

\* temp_colour with the thresholds excluded
ExclusiveThresholds(value) ==
    IF FLt(Float(85), value) THEN Some("#c0392b")
    ELSE IF FLt(Float(80), value) THEN Some("#f39c12")
    ELSE None

\* the colour of a temperature, None for the default colour; a float and an
\* int compare by value
temp_colour(value) ==
    IF FLe(Float(85), value) THEN Some("#c0392b")
    ELSE IF FLe(Float(80), value) THEN Some("#f39c12")
    ELSE None

----------------------------------------------------------------------------
(* Hardware names.  The PCI id database is [exists, readable, lines]: lines  *)
(* is read_text().splitlines(); a file that exists and cannot be read makes  *)
(* read_text() raise.                                                        *)

\* the characters str.lower() changes, and what it makes of them
UpperCase == <<"A", "B", "C", "D", "E", "F", "G", "H", "I", "J", "K", "L",
               "M", "N", "O", "P", "Q", "R", "S", "T", "U", "V", "W", "X",
               "Y", "Z", "À", "Á", "Â", "Ã", "Ä", "Å", "Æ", "Ç", "È", "É",
               "Ê", "Ë", "Ì", "Í", "Î", "Ï", "Ð", "Ñ", "Ò", "Ó", "Ô", "Õ",
               "Ö", "Ø", "Ù", "Ú", "Û", "Ü", "Ý", "Þ">>
LowerCase == <<"a", "b", "c", "d", "e", "f", "g", "h", "i", "j", "k", "l",
               "m", "n", "o", "p", "q", "r", "s", "t", "u", "v", "w", "x",
               "y", "z", "à", "á", "â", "ã", "ä", "å", "æ", "ç", "è", "é",
               "ê", "ë", "ì", "í", "î", "ï", "ð", "ñ", "ò", "ó", "ô", "õ",
               "ö", "ø", "ù", "ú", "û", "ü", "ý", "þ">>

LowerChar(c) ==
    IF \E i \in 1..Len(UpperCase) : UpperCase[i] = c
    THEN LowerCase[CHOOSE i \in 1..Len(UpperCase) : UpperCase[i] = c]
    ELSE c

\* str.lower()
Lower(t) == [i \in 1..Len(t) |-> LowerChar(t[i])]

RECURSIVE TokenLen(_)
TokenLen(t) == IF t = <<>> \/ Head(t) \in Whitespace THEN 0 ELSE 1 + TokenLen(Tail(t))

\* str.split(maxsplit=1): at most the first token and the rest, whose leading
\* whitespace is dropped
Split1(t) ==
    LET s == LStrip(t)
        k == TokenLen(s)
        rest == LStrip(SubSeq(s, k + 1, Len(s)))
    IN  IF s = <<>> THEN <<>>
        ELSE IF rest = <<>> THEN <<SubSeq(s, 1, k)>>
        ELSE <<SubSeq(s, 1, k), rest>>

PciRaised == [err |-> TRUE, name |-> None]
NotFound == [err |-> FALSE, name |-> None]

\* the for loop of lookup_pci_name; an index out of range is IndexError
RECURSIVE ScanPciIds(_, _, _, _)
ScanPciIds(lines, vendor, device, current_vendor) ==
    IF lines = <<>> THEN NotFound
    ELSE LET line == Head(lines) IN
         IF line = <<>> \/ Head(line) = "#"
         THEN ScanPciIds(Tail(lines), vendor, device, current_vendor)
         ELSE IF Head(line) # "\t"
         THEN LET parts == Split1(line) IN
              IF parts = <<>> THEN PciRaised
              ELSE ScanPciIds(Tail(lines), vendor, device,
                              IF Lower(parts[1]) = vendor /\ Len(parts) > 1
                              THEN Some(parts[2]) ELSE None)
         ELSE IF current_vendor # None
         THEN LET parts == Split1(Strip(line)) IN
              IF parts = <<>> THEN PciRaised
              ELSE IF Lower(parts[1]) = device
              THEN IF Len(parts) < 2 THEN PciRaised
                   ELSE [err |-> FALSE,
                         name |-> Some(current_vendor[1] \o <<" ">> \o parts[2])]
              ELSE ScanPciIds(Tail(lines), vendor, device, current_vendor)
         ELSE ScanPciIds(Tail(lines), vendor, device, current_vendor)

lookup_pci_name(pci, vendor, device) ==
    IF ~pci.exists THEN NotFound
    ELSE IF ~pci.readable THEN PciRaised
    ELSE ScanPciIds(pci.lines, Lower(vendor), Lower(device), None)

\* str.replace("0x", "")
RECURSIVE Drop0x(_)
Drop0x(t) ==
    IF Len(t) < 2 THEN t
    ELSE IF t[1] = "0" /\ t[2] = "x" THEN Drop0x(SubSeq(t, 3, Len(t)))
    ELSE <<Head(t)>> \o Drop0x(Tail(t))

UnknownGpu == [name |-> <<"U", "n", "k", "n", "o", "w", "n", " ", "G", "P", "U">>,
               known |-> FALSE]

\* f"AMD Radeon [{vendor}:{device}]"
Fallback(vendor, device) ==
    <<"A", "M", "D", " ", "R", "a", "d", "e", "o", "n", " ", "[">>
        \o vendor \o <<":">> \o device \o <<"]">>

\* cards: the /sys/class/drm/card* directories in glob order, each with its
\* optional device/vendor and device/device files
RECURSIVE get_gpu_name(_, _)
get_gpu_name(cards, pci) ==
    IF cards = <<>> THEN UnknownGpu
    ELSE LET card == Head(cards) IN
         IF card.vendor = None \/ card.device = None THEN get_gpu_name(Tail(cards), pci)
         ELSE LET vendor == Drop0x(Strip(card.vendor[1]))
                  device == Drop0x(Strip(card.device[1]))
                  name == lookup_pci_name(pci, vendor, device)
              IN  IF name.err THEN UnknownGpu
                  ELSE IF name.name # None THEN [name |-> name.name[1], known |-> TRUE]
                  ELSE [name |-> Fallback(vendor, device), known |-> FALSE]

----------------------------------------------------------------------------
(* The update loop.  series[m].min / .max are the globals <m>_min / <m>_max, *)
(* .cur and .crit the values handed to columns 1 and 4 of the metric's row.  *)

Metrics == {"cpu_pkg", "cpu_die", "cpu_clk", "gpu_temp", "gpu_hot", "gpu_mem",
            "gpu_clk", "gpu_memclk", "gpu_fan", "nvme"}

NoSeries == [cur |-> None, min |-> None, max |-> None, crit |-> None]

\* a < b for two samples of a metric: gfan is an int, every other sample a float
Less(m, a, b) == IF m = "gpu_fan" THEN a < b ELSE FLt(a, b)
\* Python min(a, b) / max(a, b): the first argument wins a tie
Smaller(m, a, b) == IF Less(m, b, a) THEN b ELSE a
Larger(m, a, b) == IF Less(m, a, b) THEN b ELSE a

\* Feed with the minimum overwritten by every sample
FeedOverwritesMin(s, m, v) ==
    [s EXCEPT ![m] = [cur |-> Some(v),
                      min |-> Some(v),
                      max |-> IF @.max = None THEN Some(v) ELSE Some(Larger(m, @.max[1], v)),
                      crit |-> @.crit]]

\* x_min = v if x_min is None else min(x_min, v); likewise x_max; item.setText(1, v)
Feed(s, m, v) ==
    [s EXCEPT ![m] = [cur |-> Some(v),
                      min |-> IF @.min = None THEN Some(v) ELSE Some(Smaller(m, @.min[1], v)),
                      max |-> IF @.max = None THEN Some(v) ELSE Some(Larger(m, @.max[1], v)),
                      crit |-> @.crit]]

\* if c: item.setText(4, c)
FeedCrit(s, m, c) ==
    IF c # None /\ Truthy(c[1]) THEN [s EXCEPT ![m].crit = c] ELSE s

\* if label in readings: t, _ = readings[label]; ...   (CPU rows: no critical column)
FeedLabel(s, m, readings, label) ==
    IF DictHas(readings, label) THEN Feed(s, m, DictGet(readings, label).value) ELSE s

\* if label in gpu: t, c = gpu[label]; ...; if c: ...
FeedGpuLabel(s, m, readings, label) ==
    IF DictHas(readings, label)
    THEN FeedCrit(Feed(s, m, DictGet(readings, label).value), m,
                  DictGet(readings, label).crit)
    ELSE s

\* for path in GPU_HWMONS: gpu = read_hwmon(path); ...
RECURSIVE GpuLoop(_, _)
GpuLoop(s, hwmons) ==
    IF hwmons = <<>> THEN [err |-> FALSE, s |-> s]
    ELSE LET gpu == read_hwmon(Head(hwmons)) IN
         IF gpu.err THEN [err |-> TRUE, s |-> s]
         ELSE GpuLoop(FeedGpuLabel(FeedGpuLabel(FeedGpuLabel(s,
                          "gpu_temp", gpu.res, "edge"),
                          "gpu_hot", gpu.res, "junction"),
                          "gpu_mem", gpu.res, "mem"),
                      Tail(hwmons))

FeedCpuClock(s, clk) ==
    IF clk # None /\ Truthy(clk[1]) THEN Feed(s, "cpu_clk", clk[1]) ELSE s

FeedGpuClock(s, gclk) ==
    IF gclk # None /\ Truthy(gclk[1]) THEN Feed(s, "gpu_clk", gclk[1]) ELSE s

FeedGpuMemClock(s, gmemclk) ==
    IF gmemclk # None /\ Truthy(gmemclk[1]) THEN Feed(s, "gpu_memclk", gmemclk[1]) ELSE s

FeedGpuFan(s, gfan) ==
    IF gfan # None THEN Feed(s, "gpu_fan", gfan[1]) ELSE s

\* if nvme: _, (t, _) = next(iter(nvme.items())); ...
FeedNvme(s, nvme) ==
    IF nvme # <<>> THEN Feed(s, "nvme", nvme[1].value) ELSE s

\* The sections of update().  Each takes the series as the statements before it
\* left them; an exception raised in a section ends update() there.
CpuSection(s, f) ==
    LET cpu == read_hwmon(f.cpu) IN
    IF cpu.err THEN [err |-> TRUE, s |-> s]
    ELSE [err |-> FALSE,
          s |-> FeedLabel(FeedLabel(s, "cpu_pkg", cpu.res, "Tctl"),
                          "cpu_die", cpu.res, "Tccd1")]

CpuClockSection(s, f) ==
    LET clk == read_cpu_clock(f.cores) IN
    IF clk.err THEN [err |-> TRUE, s |-> s]
    ELSE [err |-> FALSE, s |-> FeedCpuClock(s, clk.val)]

GpuSection(s, f) == GpuLoop(s, f.gpu)

GpuClockSection(s, f) ==
    LET c == read_gpu_clocks_and_fan(f.gpu) IN
    IF c.err THEN [err |-> TRUE, s |-> s]
    ELSE [err |-> FALSE,
          s |-> FeedGpuFan(FeedGpuMemClock(FeedGpuClock(s, c.core), c.mem), c.fan)]

NvmeSection(s, f) ==
    LET nvme == read_hwmon(f.nvme) IN
    IF nvme.err THEN [err |-> TRUE, s |-> s]
    ELSE [err |-> FALSE, s |-> FeedNvme(s, nvme.res)]

\* the section of that number, skipped once an exception has ended update()
Section(k, r, f) ==
    IF r.err THEN r
    ELSE CASE k = 1 -> CpuSection(r.s, f)
           [] k = 2 -> CpuClockSection(r.s, f)
           [] k = 3 -> GpuSection(r.s, f)
           [] k = 4 -> GpuClockSection(r.s, f)
           [] k = 5 -> NvmeSection(r.s, f)

\* update(): the series it leaves and whether an exception ended it
update(s0, f) ==
    Section(5, Section(4, Section(3, Section(2, Section(1,
        [err |-> FALSE, s |-> s0], f), f), f), f), f)

----------------------------------------------------------------------------
(* The sysfs trees a tick may find: for each load level a healthy tree, and *)
(* trees with a source absent, incomplete, idle or malformed.               *)

MaxLevel == 2
MaxTicks == 3

RECURSIVE Numeral(_)
Numeral(n) == IF n < 10 THEN <<Digits[n + 1]>>
              ELSE Append(Numeral(n \div 10), Digits[(n % 10) + 1])

\* a sysfs attribute holding the number n
File(n) == Numeral(n) \o <<"\n">>
Malformed == <<"n", "/", "a", "\n">>

Chan(label, n, crit) == [input |-> File(n), label |-> Some(label), crit |-> crit]
TempDir(chs) == [temps |-> chs, freqs |-> <<>>, fan |-> None]

CpuDir(l) == TempDir(<<Chan("Tctl", 45250 + 30000 * l, None),
                       Chan("Tccd1", 41500 + 43500 * l, None)>>)

Gpu1Dir(l) ==
    [temps |-> <<Chan("edge", 52000 + 28000 * l, Some(File(100000))),
                 Chan("junction", 61000 + 29000 * l, Some(File(110000))),
                 Chan("mem", 58000 + 26900 * l, Some(File(105000)))>>,
     freqs |-> <<[idx |-> 1, text |-> File(300000000 + 400000000 * l)],
                 [idx |-> 2, text |-> File(96000000 + 300000000 * l)]>>,
     fan |-> Some(File(900 + 1100 * l))]

Gpu2Dir(l) ==
    [temps |-> <<Chan("edge", 47000 + 10000 * l, Some(File(95000)))>>,
     freqs |-> <<[idx |-> 1, text |-> File(500000000 - 100000000 * l)]>>,
     fan |-> None]

NvmeDir(l) == TempDir(<<Chan("Composite", 38850 + 9000 * l, None)>>)

Healthy(l) ==
    [cpu |-> Some(CpuDir(l)),
     cores |-> <<Some(File(1400000 + 2200000 * l)), Some(File(1500000 + 1000000 * l))>>,
     gpu |-> <<Some(Gpu1Dir(l)), Some(Gpu2Dir(l))>>,
     nvme |-> Some(NvmeDir(l))]

NoTree == [cpu |-> None, cores |-> <<>>, gpu |-> <<None, None>>, nvme |-> None]

Degraded ==
    LET H == Healthy(0) IN
    { [H EXCEPT !.cpu = None],
      [H EXCEPT !.cpu[1].temps[2].label = None],
      [H EXCEPT !.cpu[1].temps[1].input = Malformed],
      [H EXCEPT !.cpu[1].temps[1].crit = Some(File(95000))],
      [H EXCEPT !.cores = <<None, None>>],
      [H EXCEPT !.cores = <<Some(File(0)), Some(File(0))>>],
      [H EXCEPT !.cores = <<Some(File(100000)), Some(File(200000)), Some(File(400000))>>],
      [H EXCEPT !.cores[2] = Some(Malformed)],
      [H EXCEPT !.cores[2] = Some(Malformed), !.nvme = None],
      [H EXCEPT !.gpu[1] = None],
      [H EXCEPT !.gpu[2] = None],
      [H EXCEPT !.gpu = <<None, None>>],
      [H EXCEPT !.gpu[2] = None, !.gpu[1][1].temps[1].crit = None],
      [H EXCEPT !.gpu[2] = None, !.gpu[1][1].temps[1].crit = Some(File(0))],
      [H EXCEPT !.gpu[2] = None, !.gpu[1][1].temps[1].crit = Some(File(99000))],
      [H EXCEPT !.gpu[1][1].temps[2].input = Malformed],
      [H EXCEPT !.gpu[1][1].fan = Some(File(0))],
      [H EXCEPT !.gpu[1][1].freqs[2].text = File(0)],
      [H EXCEPT !.gpu[1][1].freqs[1].text = File(0), !.gpu[2][1].freqs = <<>>],
      [H EXCEPT !.gpu[1][1].fan = Some(Malformed)],
      [H EXCEPT !.nvme = None],
      [H EXCEPT !.nvme[1].temps[1].input = Malformed],
      [H EXCEPT !.nvme[1].temps = <<Chan("Sensor 1", 44850, None)>> \o @] }

Trees == {NoTree} \cup {Healthy(l) : l \in 0..MaxLevel}
             \cup Degraded

----------------------------------------------------------------------------
(* The timer: every tick runs update() on the tree as it is then            *)

Idle == arg = None /\ ret = None

Init ==
    /\ fs = NoTree
    /\ series = [m \in Metrics |-> NoSeries]
    /\ err = FALSE
    /\ ticks = 0
    /\ Idle

Tick ==
    /\ ticks < MaxTicks
    /\ \E f \in Trees :
          \E r \in {update(series, f)} :
             /\ fs' = f
             /\ series' = r.s
             /\ err' = r.err
    /\ ticks' = ticks + 1
    /\ UNCHANGED <<arg, ret>>

Next == Tick

Spec == Init /\ [][Next]_vars

----------------------------------------------------------------------------
(* Specifications of the functions on their own: Init draws the argument,   *)
(* the one action calls the function on it.                                 *)

Fresh ==
    /\ fs = NoTree
    /\ series = [m \in Metrics |-> NoSeries]
    /\ err = FALSE
    /\ ticks = 0
    /\ ret = None

MaxChannels == 2
MaxLines == 3
MaxCards == 2
MaxFreqChannels == 2
ColourSpan == 40

SeqsUpTo(S, n) == UNION {[1..k -> S] : k \in 0..n}

\* read_hwmon(path)
Padded == <<" ", "+", "4", "7", "2", "5", "0", " ", "\n">>
Channels == [input : {File(52000), Padded, Malformed},
             label : {None, Some("edge"), Some("junction")},
             crit : {None, Some(File(100000)), Some(Malformed)}]
HwmonDirs == {None} \cup {Some(TempDir(chs)) : chs \in SeqsUpTo(Channels, MaxChannels)}

InitHwmon == Fresh /\ arg \in {Some(d) : d \in HwmonDirs}

CallReadHwmon ==
    /\ ret = None
    /\ ret' = Some(read_hwmon(arg[1]))
    /\ UNCHANGED <<fs, series, err, ticks, arg>>

SpecHwmon == InitHwmon /\ [][CallReadHwmon]_vars

\* lookup_pci_name(vendor, device)
PciLines ==
    { <<>>,
      <<"#", " ", "c">>,
      <<" ">>,
      <<"\t">>,
      <<"1", "0", "d", "e", " ", "N", "V">>,
      <<"1", "0", "0", "2", " ", "A", "M", "D">>,
      <<"\t", "1", "2", "A", "B", " ", "G", "P", "U">>,
      <<"\t", "f", "f", "f", "f", " ", "B", "i", "g">> }
NoPciIds == [exists |-> FALSE, readable |-> FALSE, lines |-> <<>>]
LockedPciIds == [exists |-> TRUE, readable |-> FALSE, lines |-> <<>>]
PciIds == {NoPciIds} \cup
          {[exists |-> TRUE, readable |-> TRUE, lines |-> ls] : ls \in SeqsUpTo(PciLines, MaxLines)}
VendorIds == {<<"1", "0", "D", "E">>, <<"1", "0", "0", "2">>}
DeviceIds == {<<"1", "2", "a", "b">>, <<"f", "f", "f", "f">>}

InitPci == Fresh /\ arg \in {Some([pci |-> p, vendor |-> v, device |-> d]) :
                               p \in PciIds, v \in VendorIds, d \in DeviceIds}

CallLookupPciName ==
    /\ ret = None
    /\ ret' = Some(lookup_pci_name(arg[1].pci, arg[1].vendor, arg[1].device))
    /\ UNCHANGED <<fs, series, err, ticks, arg>>

SpecPci == InitPci /\ [][CallLookupPciName]_vars

\* get_gpu_name()
IdFile(id) == <<"0", "x">> \o id \o <<"\n">>
Cards == { [vendor |-> None, device |-> None],
           [vendor |-> Some(IdFile(<<"1", "0", "d", "e">>)), device |-> None],
           [vendor |-> Some(IdFile(<<"1", "0", "d", "e">>)),
            device |-> Some(IdFile(<<"1", "2", "a", "b">>))],
           [vendor |-> Some(IdFile(<<"1", "0", "0", "2">>)),
            device |-> Some(IdFile(<<"f", "f", "f", "f">>))] }

InitGpuName == Fresh /\ arg \in {Some([cards |-> cs, pci |-> p]) :
                                   cs \in SeqsUpTo(Cards, MaxCards),
                                   p \in PciIds \cup {LockedPciIds}}

CallGetGpuName ==
    /\ ret = None
    /\ ret' = Some(get_gpu_name(arg[1].cards, arg[1].pci))
    /\ UNCHANGED <<fs, series, err, ticks, arg>>

SpecGpuName == InitGpuName /\ [][CallGetGpuName]_vars

\* read_gpu_clocks_and_fan()
FreqTexts == {File(0), File(300000000), File(1200000000)}
FanTexts == {None, Some(File(0)), Some(File(1500))}
FreqFiles == UNION {[ix -> FreqTexts] : ix \in SUBSET (1..MaxFreqChannels)}

RECURSIVE FreqSeq(_, _)
FreqSeq(files, ix) ==
    IF ix = {} THEN <<>>
    ELSE LET i == CHOOSE j \in ix : \A k \in ix : j <= k
         IN  <<[idx |-> i, text |-> files[i]]>> \o FreqSeq(files, ix \ {i})

ClockDirs == {None} \cup
             {Some([temps |-> <<>>, freqs |-> FreqSeq(fl, DOMAIN fl), fan |-> fn]) :
                 fl \in FreqFiles, fn \in FanTexts}

InitClocks == Fresh /\ arg \in {Some(<<a, b>>) : a \in ClockDirs, b \in ClockDirs}

CallReadGpuClocksAndFan ==
    /\ ret = None
    /\ ret' = Some(read_gpu_clocks_and_fan(arg[1]))
    /\ UNCHANGED <<fs, series, err, ticks, arg>>

SpecClocks == InitClocks /\ [][CallReadGpuClocksAndFan]_vars

\* temp_colour(value), for a reading (value, crit) of read_hwmon
Readings == {[input |-> 100 * k, value |-> TrueDiv(100 * k, 1000), crit |-> c] :
                k \in (800 - ColourSpan)..(850 + ColourSpan),
                c \in {None, Some(Float(70)), Some(Float(100))}}

InitColour == Fresh /\ arg \in {Some(r) : r \in Readings}

CallTempColour ==
    /\ ret = None
    /\ ret' = Some(temp_colour(arg[1].value))
    /\ UNCHANGED <<fs, series, err, ticks, arg>>

SpecColour == InitColour /\ [][CallTempColour]_vars

----------------------------------------------------------------------------
(* What each source of a tree offers, read on its own                       *)

Ticked == ticks > 0

HasLabel(dir, label) ==
    dir # None /\ \E i \in 1..Len(dir[1].temps) : dir[1].temps[i].label = Some(label)

\* the reading of the label in the directory, None if it has none or cannot be read
LabelReading(dir, label) ==
    LET r == read_hwmon(dir) IN
    IF ~r.err /\ DictHas(r.res, label) THEN Some(DictGet(r.res, label)) ELSE None

\* the last of the GPU directories that offers the label
GpuReading(hwmons, label) ==
    LET ok == {i \in 1..Len(hwmons) : LabelReading(hwmons[i], label) # None} IN
    IF ok = {} THEN None
    ELSE LabelReading(hwmons[CHOOSE i \in ok : \A j \in ok : j <= i], label)

NvmeReading(dir) ==
    LET r == read_hwmon(dir) IN
    IF ~r.err /\ r.res # <<>> THEN Some(r.res[1]) ELSE None

TempMetrics == {"cpu_pkg", "cpu_die", "gpu_temp", "gpu_hot", "gpu_mem", "nvme"}

Reading(m, f) ==
    CASE m = "cpu_pkg" -> LabelReading(f.cpu, "Tctl")
      [] m = "cpu_die" -> LabelReading(f.cpu, "Tccd1")
      [] m = "gpu_temp" -> GpuReading(f.gpu, "edge")
      [] m = "gpu_hot" -> GpuReading(f.gpu, "junction")
      [] m = "gpu_mem" -> GpuReading(f.gpu, "mem")
      [] m = "nvme" -> NvmeReading(f.nvme)

\* the value the metric's reader obtains from the tree, None if it obtains none
Sample(m, f) ==
    CASE m \in TempMetrics ->
            IF Reading(m, f) = None THEN None ELSE Some(Reading(m, f)[1].value)
      [] m = "cpu_clk" -> read_cpu_clock(f.cores).val
      [] m = "gpu_clk" -> read_gpu_clocks_and_fan(f.gpu).core
      [] m = "gpu_memclk" -> read_gpu_clocks_and_fan(f.gpu).mem
      [] m = "gpu_fan" -> read_gpu_clocks_and_fan(f.gpu).fan

\* the metric's source yields no sample: no directory, no such label, or the
\* derived reader reports unavailable
NoSample(m, f) ==
    CASE m = "cpu_pkg" -> ~HasLabel(f.cpu, "Tctl")
      [] m = "cpu_die" -> ~HasLabel(f.cpu, "Tccd1")
      [] m = "gpu_temp" -> \A i \in 1..Len(f.gpu) : ~HasLabel(f.gpu[i], "edge")
      [] m = "gpu_hot" -> \A i \in 1..Len(f.gpu) : ~HasLabel(f.gpu[i], "junction")
      [] m = "gpu_mem" -> \A i \in 1..Len(f.gpu) : ~HasLabel(f.gpu[i], "mem")
      [] m = "nvme" -> f.nvme = None
                         \/ \A i \in 1..Len(f.nvme[1].temps) : f.nvme[1].temps[i].label = None
      [] m = "cpu_clk" -> \A i \in 1..Len(f.cores) : f.cores[i] = None
      [] m = "gpu_clk" -> ~read_gpu_clocks_and_fan(f.gpu).err
                            /\ read_gpu_clocks_and_fan(f.gpu).core = None
      [] m = "gpu_memclk" -> \A i \in 1..Len(f.gpu) : f.gpu[i] = None \/ ~HasFreq2(f.gpu[i][1])
      [] m = "gpu_fan" -> \A i \in 1..Len(f.gpu) : f.gpu[i] = None \/ f.gpu[i][1].fan = None

\* some source of the tree is absent or holds malformed content
Broken(f) ==
    \/ f.cpu = None \/ f.nvme = None \/ \E i \in 1..Len(f.gpu) : f.gpu[i] = None
    \/ \A i \in 1..Len(f.cores) : f.cores[i] = None
    \/ read_hwmon(f.cpu).err \/ read_hwmon(f.nvme).err
    \/ \E i \in 1..Len(f.gpu) : read_hwmon(f.gpu[i]).err
    \/ read_cpu_clock(f.cores).err
    \/ read_gpu_clocks_and_fan(f.gpu).err

----------------------------------------------------------------------------
(* Claims                                                                   *)

C1_Bracketed ==
    \A m \in Metrics : series[m].cur # None =>
        /\ series[m].min # None /\ series[m].max # None
        /\ ~Less(m, series[m].cur[1], series[m].min[1])
        /\ ~Less(m, series[m].max[1], series[m].cur[1])

C1_Monotone ==
    \A m \in Metrics : series[m].cur # None =>
        /\ series'[m].cur # None
        /\ ~Less(m, series[m].min[1], series'[m].min[1])
        /\ ~Less(m, series'[m].max[1], series[m].max[1])

\* C1: once a metric has had its first sample, min <= current <= max holds after
\* every tick, and no tick raises its min or lowers its max.
C1_RunningMinMax == [](C1_Bracketed) /\ [][C1_Monotone]_vars

\* every metric has been sampled, and one holds three different values, its
\* current strictly between its min and its max
C1_Witness ==
    /\ \A m \in Metrics : series[m].cur # None
    /\ \E m \in Metrics : /\ Less(m, series[m].min[1], series[m].cur[1])
                          /\ Less(m, series[m].cur[1], series[m].max[1])

\* C2: a tick in which a metric's source yields no sample completes without
\* error and leaves that metric's current, min, max and critical as they were.
C2_GapLeavesSeries ==
    [][ticks' # ticks =>
         \A m \in Metrics : NoSample(m, fs') => ~err' /\ series'[m] = series[m]]_vars

\* C3: a tick never ends in an error, and when one source is absent or
\* malformed every other source that yields a valid sample is still fed.
C3_BrokenSourceIsolated ==
    (Ticked /\ Broken(fs)) =>
        /\ ~err
        /\ \A m \in Metrics : Sample(m, fs) # None => series[m].cur = Sample(m, fs)

\* C9: after a tick the critical value of a metric is the threshold that came
\* with its latest sample, whatever its value.
C9_CriticalLastSeen ==
    (Ticked /\ ~err) =>
        \A m \in TempMetrics :
            (Reading(m, fs) # None /\ Reading(m, fs)[1].crit # None)
                => series[m].crit = Reading(m, fs)[1].crit

\* C10: every value a reader obtains in a tick, zero included, is fed to the
\* metric's series in that tick.
C10_EveryValueFed ==
    (Ticked /\ ~err) =>
        \A m \in Metrics : Sample(m, fs) # None => series[m].cur = Sample(m, fs)

Called == ret # None

WellFormed(ch) ==
    ParseInt(ch.input).ok /\ (ch.crit = None \/ ParseInt(ch.crit[1]).ok)

\* the reading a well-formed channel stands for
ReadingOf(ch) ==
    [name |-> ch.label[1],
     value |-> TrueDiv(ParseInt(ch.input).val, 1000),
     crit |-> IF ch.crit = None THEN None ELSE Some(TrueDiv(ParseInt(ch.crit[1]).val, 1000))]

\* C4: read_hwmon on a directory with a malformed labelled channel raises
\* nothing and returns the readings of exactly the well-formed labelled channels.
C4_MalformedChannelSkipped ==
    (Called /\ arg[1] # None) =>
        LET chs == arg[1][1].temps
            good == {i \in 1..Len(chs) : chs[i].label # None /\ WellFormed(chs[i])}
            bad == {i \in 1..Len(chs) : chs[i].label # None /\ ~WellFormed(chs[i])}
            res == ret[1].res
        IN  bad # {} =>
              /\ ~ret[1].err
              /\ {res[k].name : k \in 1..Len(res)} = {chs[i].label[1] : i \in good}
              /\ \A k \in 1..Len(res) :
                    \E i \in good :
                       /\ res[k] = ReadingOf(chs[i])
                       /\ \A j \in good : chs[j].label = chs[i].label => j <= i

\* lines of the database by kind
IsBlankLine(line) == Strip(line) = <<>>
IsCommentLine(line) == line # <<>> /\ Head(line) = "#"
IsIndentedLine(line) == ~IsBlankLine(line) /\ Head(line) = "\t"
IsVendorLine(line) == ~IsBlankLine(line) /\ ~IsCommentLine(line) /\ ~IsIndentedLine(line)
IsRecord(line) == Len(Split1(Strip(line))) = 2
RecordId(line) == Lower(Split1(Strip(line))[1])
RecordName(line) == Split1(Strip(line))[2]

\* the names "<vendor name> <device name>" of the device records with the device
\* id that stand under a vendor record with the vendor id
PciNames(pci, vendor, device) ==
    IF ~pci.exists THEN {}
    ELSE LET ls == pci.lines IN
         { RecordName(ls[i]) \o <<" ">> \o RecordName(ls[j]) :
             <<i, j>> \in {p \in (1..Len(ls)) \X (1..Len(ls)) :
                 /\ p[1] < p[2]
                 /\ IsVendorLine(ls[p[1]]) /\ IsRecord(ls[p[1]])
                 /\ RecordId(ls[p[1]]) = Lower(vendor)
                 /\ IsIndentedLine(ls[p[2]]) /\ IsRecord(ls[p[2]])
                 /\ RecordId(ls[p[2]]) = Lower(device)
                 /\ \A k \in (p[1] + 1)..(p[2] - 1) : ~IsVendorLine(ls[k])} }

\* C5: lookup_pci_name returns "<vendor name> <device name>" exactly when the
\* database holds the device record under the vendor record, and not-found in
\* every other case, whatever comment, blank, vendor and indented lines it holds.
C5_LookupExact ==
    Called =>
        LET names == PciNames(arg[1].pci, arg[1].vendor, arg[1].device) IN
        /\ ~ret[1].err
        /\ names = {} => ret[1].name = None
        /\ names # {} => ret[1].name # None /\ ret[1].name[1] \in names

Usable(card) == card.vendor # None /\ card.device # None

\* C6: get_gpu_name, for the first card with both identifier files, returns the
\* resolved name and true when the lookup succeeds and the fallback embedding
\* the raw vendor:device pair and false whenever it fails; "Unknown GPU" only
\* when no card is usable.
C6_FallbackEmbedsIds ==
    Called =>
        LET cards == arg[1].cards
            usable == {i \in 1..Len(cards) : Usable(cards[i])}
            first == cards[CHOOSE i \in usable : \A j \in usable : i <= j]
            vendor == Drop0x(Strip(first.vendor[1]))
            device == Drop0x(Strip(first.device[1]))
            names == PciNames(arg[1].pci, vendor, device)
        IN  IF usable = {} THEN ret[1] = UnknownGpu
            ELSE IF names # {} /\ arg[1].pci.readable
                 THEN ret[1].known /\ ret[1].name \in names
                 ELSE ret[1] = [name |-> Fallback(vendor, device), known |-> FALSE]

SetMax(S) == CHOOSE x \in S : \A y \in S : y <= x

\* C7: the core clock is the largest non-zero freq*_input of all the
\* directories in MHz, unavailable when there is none; the memory clock and
\* the fan speed are those of the last directory that has the file.
C7_CoreMaxLastWins ==
    Called =>
        LET hs == arg[1]
            present == {i \in 1..Len(hs) : hs[i] # None}
            hz == UNION {{ParseInt(hs[i][1].freqs[k].text).val :
                             k \in 1..Len(hs[i][1].freqs)} : i \in present} \ {0}
            withMem == {i \in present : HasFreq2(hs[i][1])}
            withFan == {i \in present : hs[i][1].fan # None}
        IN  /\ ~ret[1].err
            /\ ret[1].core = IF hz = {} THEN None ELSE Some(TrueDiv(SetMax(hz), 1000000))
            /\ ret[1].mem = IF withMem = {} THEN None
                            ELSE Some(TrueDiv(ParseInt(Freq2(hs[SetMax(withMem)][1])).val, 1000000))
            /\ ret[1].fan = IF withFan = {} THEN None
                            ELSE Some(ParseInt(hs[SetMax(withFan)][1].fan[1]).val)

\* both directories have a memory clock and a fan that differ, one core
\* channel is idle, and the second directory does not hold the largest clock
C7_Witness ==
    /\ Called
    /\ \A i \in 1..2 : arg[1][i] # None /\ HasFreq2(arg[1][i][1]) /\ arg[1][i][1].fan # None
    /\ Freq2(arg[1][1][1]) = File(1200000000) /\ Freq2(arg[1][2][1]) = File(300000000)
    /\ arg[1][1][1].fan = Some(File(1500)) /\ arg[1][2][1].fan = Some(File(0))
    /\ arg[1][2][1].freqs[1].text = File(0)
    /\ ret[1].core = Some(Float(1200))
    /\ ret[1].mem = Some(Float(300))
    /\ ret[1].fan = Some(0)

\* C8: t >= 85 is CRITICAL, 80 <= t < 85 is WARM, anything below is NORMAL,
\* whatever the sensor's own critical value.
C8_FixedTiers ==
    Called =>
        LET tenths == arg[1].input \div 100
        IN  /\ arg[1].value = TrueDiv(100 * tenths, 1000)
            /\ ret[1] = IF tenths >= 850 THEN Some("#c0392b")
                        ELSE IF tenths >= 800 THEN Some("#f39c12")
                        ELSE None
            /\ tenths = 849 => ret[1] = Some("#f39c12")
            /\ tenths = 850 => ret[1] = Some("#c0392b")
            /\ tenths = 799 => ret[1] = None

\* 85.0 is CRITICAL although the sensor's own critical value is 100
C8_Witness ==
    /\ Called
    /\ arg[1] = [input |-> 85000, value |-> Float(85), crit |-> Some(Float(100))]
    /\ ret[1] = Some("#c0392b")

====
